---------------------------- MODULE Spec2Model ----------------------------
(***************************************************************************)
(* The issue lifecycle engine of backend/server.py: feedback submission    *)
(* with de-duplication, update logging, manual escalation, status setting  *)
(* and the SLA sweep, over the two collections db.issues and               *)
(* db.issue_updates.                                                       *)
(*                                                                         *)
(* Every handler is an `async def`; each `await` on the store is one       *)
(* atomic single-document (or single-query) operation, and other handlers  *)
(* run between two awaits of a handler.  A handler is therefore modelled   *)
(* as one action per await, the local computation that follows an await    *)
(* belonging to the same action.  A process slot holds a running handler's *)
(* local variables.  With one slot handlers run without interleaving, with *)
(* two slots their store operations interleave.                            *)
(*                                                                         *)
(* An issue's id is its position in db.issues (issues are never deleted,   *)
(* and uuid4 ids are unique).  Time is counted in days.                    *)
(***************************************************************************)
EXTENDS Integers, Sequences, FiniteSets, TLC

VARIABLES
  issues,   \* db.issues, in insertion order
  updates,  \* db.issue_updates, in insertion order
  now,      \* the clock that datetime.now(timezone.utc) reads
  procs,    \* per slot: where the running handler is, and its local variables
  resp,     \* per slot: the response of the handler that returned last
  run,      \* what the run bounds and records; it never changes
  probe     \* a call of the next-role computation on its own: input and output

vars == <<issues, updates, now, procs, resp, run, probe>>

-----------------------------------------------------------------------------
(* Bounds of the model *)

MaxIssues == 1

MaxUpdates == 3

MaxTime == 3

MaxFreq == 2

(* Program constants *)

SlaDays == 2

DedupLimit == 100

SweepLimit == 1000

-----------------------------------------------------------------------------
(* Pure helpers *)

Min(a, b) == IF a <= b THEN a ELSE b

\* cursor.to_list(length): at most `length` documents, in store order
to_list(docs, length) == SubSeq(docs, 1, Min(Len(docs), length))

\* str.lower() on the model's alphabet
LowerChar(c) ==
  CASE c = "A" -> "a"
    [] c = "B" -> "b"
    [] OTHER -> c

lower(s) == [i \in 1..Len(s) |-> LowerChar(s[i])]

\* Python's `x in y` on strings: x occurs in y as a contiguous substring
str_in(x, y) ==
  \E i \in 0..(Len(y) - Len(x)) : SubSeq(y, i + 1, i + Len(x)) = x

\* the dedup test of submit_feedback
SummaryMatches(new_summary, stored_summary) ==
  str_in(lower(new_summary), lower(stored_summary))

-----------------------------------------------------------------------------
(* Escalation policy *)

DefaultChain == <<"Staff", "Admin", "Principal">>

get_role_hierarchy(category) ==
  CASE category = "Academics" -> <<"Staff", "HoD", "Admin", "Principal">>
    [] category = "Hostel" -> <<"Warden", "Admin", "Principal">>
    [] category = "Infrastructure" -> <<"Staff", "Admin", "Principal">>
    [] category = "Food" -> <<"Staff", "Admin", "Principal">>
    [] category = "Transportation" -> <<"Staff", "Admin", "Principal">>
    [] category = "Other" -> <<"Staff", "Admin", "Principal">>
    [] OTHER -> DefaultChain

\* hierarchy.index(role) if role in hierarchy else -1   (0-based, as in Python)
current_index(hierarchy, role) ==
  IF \E i \in 1..Len(hierarchy) : hierarchy[i] = role
  THEN (CHOOSE i \in 1..Len(hierarchy) :
          /\ hierarchy[i] = role
          /\ \A j \in 1..(i - 1) : hierarchy[j] # role) - 1
  ELSE -1

\* the guard of both escalation paths: current_index >= len(hierarchy) - 1
at_highest_level(hierarchy, role) ==
  current_index(hierarchy, role) >= Len(hierarchy) - 1

\* hierarchy[current_index + 1]   (0-based index, 1-based sequence)
next_role(hierarchy, role) == hierarchy[current_index(hierarchy, role) + 2]

-----------------------------------------------------------------------------
(* The store *)

Procs == {1, 2}

Idle == [pc |-> "idle"]

NoPre == [now |-> 0]

NoResp == [op |-> "none", pre |-> NoPre]

\* history, kept only in runs that record it: the request `req` of the handler
\* that slot p starts, the store and the clock as it finds them, and the
\* handler that the slot ran before it (with the clock that one was called at)
Pre(p, req) ==
  IF run.history
  THEN [issues |-> issues, updates |-> updates, now |-> now, req |-> req,
        prev |-> [op |-> resp[p].op, now |-> resp[p].pre.now]]
  ELSE NoPre

\* the HTTP response of the handler that slot p ran last: its body, or the
\* error it raised (kept only in runs that observe responses)
Reply(p, r) == resp' = [resp EXCEPT ![p] = IF run.observe THEN r ELSE @]

\* db.issues.find_one({"issue_id": id}) finds a document
issue_exists(id) == id \in 1..Len(issues)

\* a slip: the $set names assigned_role only
set_role_only(docs, id, r, s) ==
  IF id \in 1..Len(docs) THEN [docs EXCEPT ![id].assigned_role = r] ELSE docs

\* db.issues.update_one({"issue_id": id}, {"$set": {"assigned_role": r, "status": s}})
set_role_status(docs, id, r, s) ==
  IF id \in 1..Len(docs)
  THEN [docs EXCEPT ![id].assigned_role = r, ![id].status = s]
  ELSE docs

\* a slip: the filter of the update leaves Resolved issues out
set_status_unless_resolved(docs, id, s) ==
  IF id \in 1..Len(docs) /\ docs[id].status # "Resolved"
  THEN [docs EXCEPT ![id].status = s]
  ELSE docs

\* a slip: the $set also sends the issue back to the first role of its chain
set_status_reassign(docs, id, s) ==
  IF id \in 1..Len(docs)
  THEN [docs EXCEPT ![id].status = s,
                    ![id].assigned_role = get_role_hierarchy(docs[id].category)[1]]
  ELSE docs

\* db.issues.update_one({"issue_id": id}, {"$set": {"status": s}})
set_status(docs, id, s) ==
  IF id \in 1..Len(docs) THEN [docs EXCEPT ![id].status = s] ELSE docs

\* a slip: a $set of the count that a first duplicate leaves, in place of $inc
inc_frequency_set(docs, id) ==
  IF id \in 1..Len(docs) THEN [docs EXCEPT ![id].frequency_count = 2] ELSE docs

\* db.issues.update_one({"issue_id": id}, {"$inc": {"frequency_count": 1}})
inc_frequency(docs, id) ==
  IF id \in 1..Len(docs)
  THEN [docs EXCEPT ![id].frequency_count = @ + 1]
  ELSE docs

\* IssueUpdate(issue_id, role, content_type="text", content_text=...)
IssueUpdate(id, role, text) == [issue_id |-> id, role |-> role, content_text |-> text]

-----------------------------------------------------------------------------
(* Escalation decisions *)

\* a slip: the next position is taken modulo the chain's length, so the last
\* role advances to the first
escalate_target_wrap(issue) ==
  LET hierarchy == get_role_hierarchy(issue.category)
  IN hierarchy[((current_index(hierarchy, issue.assigned_role) + 1) % Len(hierarchy)) + 1]

\* what escalate_issue decides from the issue it read: the role to advance
\* to, or "" for "Already at highest level"
escalate_target(issue) ==
  LET hierarchy == get_role_hierarchy(issue.category)
  IN IF at_highest_level(hierarchy, issue.assigned_role)
     THEN ""
     ELSE next_role(hierarchy, issue.assigned_role)

\* a slip: the sweep sends a candidate below the last position straight to it
sweep_target_top(issue) ==
  LET hierarchy == get_role_hierarchy(issue.category)
  IN IF current_index(hierarchy, issue.assigned_role) < Len(hierarchy) - 1
     THEN hierarchy[Len(hierarchy)]
     ELSE ""

\* what the sweep decides from a candidate it read: the role to advance to,
\* or "" when the guard current_index < len(hierarchy) - 1 fails
sweep_target(issue) ==
  LET hierarchy == get_role_hierarchy(issue.category)
  IN IF current_index(hierarchy, issue.assigned_role) < Len(hierarchy) - 1
     THEN next_role(hierarchy, issue.assigned_role)
     ELSE ""

\* the candidates of a running sweep that it has yet to write, from position k
sweep_left(cands, k) == {j \in k..Len(cands) : sweep_target(cands[j]) # ""}

-----------------------------------------------------------------------------
(* Bounds on the run: the rows the running handlers are yet to append *)

pending_updates(q) ==
  CASE procs[q].pc \in {"escalate_update", "escalate_insert", "update_insert"} -> 1
    [] procs[q].pc = "sweep_update" -> Cardinality(sweep_left(procs[q].issues, procs[q].k))
    [] procs[q].pc = "sweep_insert" -> Cardinality(sweep_left(procs[q].issues, procs[q].k))
    [] OTHER -> 0

RoomForUpdates(n) ==
  Len(updates) + pending_updates(1) + pending_updates(2) + n <= run.max_updates

RoomForIssue ==
  Len(issues) + Cardinality({q \in Procs : procs[q].pc = "submit_insert"}) < run.max_issues

RoomForBump(id) ==
  issues[id].frequency_count
    + Cardinality({q \in Procs : procs[q].pc = "submit_inc" /\ procs[q].issue_id = id})
    < run.max_freq

-----------------------------------------------------------------------------
(* POST /issues/{issue_id}/escalate *)

escalate_issue_find(p, issue_id, role) ==
  /\ procs[p].pc = "idle"
  /\ UNCHANGED <<issues, updates, now, run, probe>>
  /\ LET pre == Pre(p, [issue_id |-> issue_id, role |-> role])
         err(e) == /\ Reply(p, [op |-> "escalate", result |-> e, pre |-> pre])
                   /\ UNCHANGED procs
     IN IF role = "Student" THEN err("Forbidden")
        ELSE IF ~issue_exists(issue_id) THEN err("NotFound")
        ELSE IF escalate_target(issues[issue_id]) = "" THEN err("AtCeiling")
        ELSE /\ RoomForUpdates(1)
             /\ procs' = [procs EXCEPT ![p] =
                            [pc |-> "escalate_update", issue_id |-> issue_id, role |-> role,
                             next_role |-> escalate_target(issues[issue_id]), pre |-> pre]]
             /\ UNCHANGED resp

escalate_issue_update(p) ==
  /\ procs[p].pc = "escalate_update"
  /\ issues' = set_role_status(issues, procs[p].issue_id, procs[p].next_role, "Escalated")
  /\ procs' = [procs EXCEPT ![p].pc = "escalate_insert"]
  /\ UNCHANGED <<updates, now, resp, run, probe>>

escalate_issue_insert(p) ==
  /\ procs[p].pc = "escalate_insert"
  /\ updates' = Append(updates, IssueUpdate(procs[p].issue_id, procs[p].role, "Escalated"))
  /\ Reply(p, [op |-> "escalate", result |-> "ok", next_role |-> procs[p].next_role,
               pre |-> procs[p].pre])
  /\ procs' = [procs EXCEPT ![p] = Idle]
  /\ UNCHANGED <<issues, now, run, probe>>

-----------------------------------------------------------------------------
(* POST /issues/{issue_id}/status *)

StatusRoles == {"Admin", "Principal", "HoD", "Warden", "Staff"}

\* a slip: the role check comes after the write
update_status_write_first(p, issue_id, status, role) ==
  /\ procs[p].pc = "idle"
  /\ UNCHANGED <<updates, now, procs, run, probe>>
  /\ issues' = set_status(issues, issue_id, status)
  /\ LET pre == Pre(p, [issue_id |-> issue_id, status |-> status, role |-> role])
     IN Reply(p, [op |-> "status",
                  result |-> IF role \notin StatusRoles THEN "Forbidden" ELSE "ok",
                  pre |-> pre])

update_status(p, issue_id, status, role) ==
  /\ procs[p].pc = "idle"
  /\ UNCHANGED <<updates, now, procs, run, probe>>
  /\ LET pre == Pre(p, [issue_id |-> issue_id, status |-> status, role |-> role])
     IN IF role \notin StatusRoles
        THEN /\ Reply(p, [op |-> "status", result |-> "Forbidden", pre |-> pre])
             /\ UNCHANGED issues
        ELSE /\ issues' = set_status(issues, issue_id, status)
             /\ Reply(p, [op |-> "status", result |-> "ok", pre |-> pre])

-----------------------------------------------------------------------------
(* POST /issues/{issue_id}/update *)

add_update_find(p, issue_id, role) ==
  /\ procs[p].pc = "idle"
  /\ UNCHANGED <<issues, updates, now, run, probe>>
  /\ LET pre == Pre(p, [issue_id |-> issue_id, role |-> role])
         err(e) == /\ Reply(p, [op |-> "update", result |-> e, pre |-> pre])
                   /\ UNCHANGED procs
     IN IF role = "Student" THEN err("Forbidden")
        ELSE IF ~issue_exists(issue_id) THEN err("NotFound")
        ELSE /\ RoomForUpdates(1)
             /\ procs' = [procs EXCEPT ![p] =
                            [pc |-> "update_insert", issue_id |-> issue_id, role |-> role,
                             pre |-> pre]]
             /\ UNCHANGED resp

add_update_insert(p) ==
  /\ procs[p].pc = "update_insert"
  /\ updates' = Append(updates, IssueUpdate(procs[p].issue_id, procs[p].role, "note"))
  /\ procs' = [procs EXCEPT ![p].pc = "update_set"]
  /\ UNCHANGED <<issues, now, resp, run, probe>>

add_update_set(p) ==
  /\ procs[p].pc = "update_set"
  /\ issues' = set_status(issues, procs[p].issue_id, "In Progress")
  /\ Reply(p, [op |-> "update", result |-> "ok", pre |-> procs[p].pre])
  /\ procs' = [procs EXCEPT ![p] = Idle]
  /\ UNCHANGED <<updates, now, run, probe>>

-----------------------------------------------------------------------------
(* POST /cron/check-escalation *)

\* the query of check_escalation: status in [Open, In Progress] and
\* sla_deadline < now (ISO-8601 UTC strings compare as the instants do)
sla_breached(issue, t) ==
  /\ issue.status \in {"Open", "In Progress"}
  /\ issue.sla_deadline < t

\* the fields of a found document that the sweep's loop reads
candidate(issue) ==
  [issue_id |-> issue.issue_id, category |-> issue.category,
   assigned_role |-> issue.assigned_role]

\* find(...).to_list(1000) of check_escalation
sweep_candidates(t) ==
  LET found == to_list(SelectSeq(issues, LAMBDA i : sla_breached(i, t)), SweepLimit)
  IN [j \in 1..Len(found) |-> candidate(found[j])]

\* the `for issue in issues` loop runs on, without awaiting, to the next
\* candidate it will write: the first position >= k whose guard passes, or
\* the position past the end of the list
next_candidate(cands, k) ==
  LET left == sweep_left(cands, k)
  IN IF left = {}
     THEN IF k > Len(cands) THEN k ELSE Len(cands) + 1
     ELSE CHOOSE j \in left : \A m \in left : j <= m

check_escalation_find(p) ==
  /\ procs[p].pc = "idle"
  /\ UNCHANGED <<issues, updates, now, run, probe>>
  /\ LET cands == sweep_candidates(now)
         k == next_candidate(cands, 1)
         pre == Pre(p, <<>>)
     IN IF k > Len(cands)
        THEN /\ Reply(p, [op |-> "sweep", result |-> "ok", escalated_count |-> 0,
                          pre |-> pre])
             /\ UNCHANGED procs
        ELSE /\ RoomForUpdates(Cardinality(sweep_left(cands, 1)))
             /\ procs' = [procs EXCEPT ![p] =
                            [pc |-> "sweep_update", issues |-> cands, k |-> k,
                             escalated_count |-> 0, pre |-> pre]]
             /\ UNCHANGED resp

check_escalation_update(p) ==
  /\ procs[p].pc = "sweep_update"
  /\ LET issue == procs[p].issues[procs[p].k]
     IN issues' = set_role_status(issues, issue.issue_id, sweep_target(issue), "Escalated")
  /\ procs' = [procs EXCEPT ![p].pc = "sweep_insert"]
  /\ UNCHANGED <<updates, now, resp, run, probe>>

check_escalation_insert(p) ==
  /\ procs[p].pc = "sweep_insert"
  /\ LET issue == procs[p].issues[procs[p].k]
         k == next_candidate(procs[p].issues, procs[p].k + 1)
         n == procs[p].escalated_count + 1
     IN /\ updates' = Append(updates, IssueUpdate(issue.issue_id, "System", "Auto-escalated"))
        /\ IF k > Len(procs[p].issues)
           THEN /\ Reply(p, [op |-> "sweep", result |-> "ok", escalated_count |-> n,
                             pre |-> procs[p].pre])
                /\ procs' = [procs EXCEPT ![p] = Idle]
           ELSE /\ procs' = [procs EXCEPT ![p].pc = "sweep_update", ![p].k = k,
                                          ![p].escalated_count = n]
                /\ UNCHANGED resp
  /\ UNCHANGED <<issues, now, run, probe>>

-----------------------------------------------------------------------------
(* POST /feedback/submit *)

\* sha256(uid + day)[:12]: one token per identity and day
generate_anon_token(uid, t) == <<uid, t>>

\* a slip: every new issue goes to "Staff", whatever its category's chain
initial_role_staff(category) == "Staff"

\* hierarchy[0] if hierarchy else "Staff"
initial_role(category) ==
  LET hierarchy == get_role_hierarchy(category)
  IN IF Len(hierarchy) > 0 THEN hierarchy[1] ELSE "Staff"

\* Issue(...): status "Open" and frequency_count 1 by default; created_at is
\* read from the clock when the object is built
Issue(category, summary, assigned_role, sla_deadline, anon_token, created_at) ==
  [issue_id |-> 0, category |-> category, summary |-> summary, status |-> "Open",
   assigned_role |-> assigned_role, frequency_count |-> 1, created_at |-> created_at,
   sla_deadline |-> sla_deadline, anon_token |-> anon_token]

\* the issues the dedup loop sees: non-Resolved, same category, first 100
existing_issues(category) ==
  to_list(SelectSeq(issues, LAMBDA i : i.category = category /\ i.status # "Resolved"),
          DedupLimit)

\* the issue the dedup loop stops at (its id), or 0 when it runs to the end
first_similar(existing, summary) ==
  LET hits == {i \in 1..Len(existing) : SummaryMatches(summary, existing[i].summary)}
  IN IF hits = {}
     THEN 0
     ELSE existing[CHOOSE i \in hits : \A j \in hits : i <= j].issue_id

\* `created_at` is the clock when the Issue object is built, after the clock
\* read that dates the SLA deadline: the clock may have moved on in between
submit_feedback_find(p, uid, role, category, summary, is_appropriate, created_at) ==
  /\ procs[p].pc = "idle"
  /\ created_at >= now
  /\ UNCHANGED <<issues, updates, run, probe>>
  /\ LET pre == Pre(p, [uid |-> uid, role |-> role, category |-> category,
                         summary |-> summary, is_appropriate |-> is_appropriate])
         err(e) == /\ Reply(p, [op |-> "submit", result |-> e, pre |-> pre])
                   /\ UNCHANGED <<procs, now>>
         similar == first_similar(existing_issues(category), summary)
     IN IF role # "Student" THEN err("Forbidden")
        ELSE IF ~is_appropriate THEN err("ContentRejected")
        ELSE IF similar # 0
        THEN /\ RoomForBump(similar)
             /\ procs' = [procs EXCEPT ![p] =
                            [pc |-> "submit_inc", issue_id |-> similar, pre |-> pre]]
             /\ UNCHANGED <<resp, now>>
        ELSE /\ RoomForIssue
             /\ now' = created_at
             /\ procs' = [procs EXCEPT ![p] =
                  [pc |-> "submit_insert", pre |-> pre,
                   issue |-> Issue(category, summary, initial_role(category),
                                   now + SlaDays, generate_anon_token(uid, now),
                                   created_at)]]
             /\ UNCHANGED resp

submit_feedback_inc(p) ==
  /\ procs[p].pc = "submit_inc"
  /\ issues' = inc_frequency(issues, procs[p].issue_id)
  /\ Reply(p, [op |-> "submit", result |-> "ok", issue_id |-> procs[p].issue_id,
               message |-> "Similar issue already reported", pre |-> procs[p].pre])
  /\ procs' = [procs EXCEPT ![p] = Idle]
  /\ UNCHANGED <<updates, now, run, probe>>

submit_feedback_insert(p) ==
  /\ procs[p].pc = "submit_insert"
  /\ issues' = Append(issues, [procs[p].issue EXCEPT !.issue_id = Len(issues) + 1])
  /\ Reply(p, [op |-> "submit", result |-> "ok", issue_id |-> Len(issues) + 1,
               message |-> "Feedback submitted successfully", pre |-> procs[p].pre])
  /\ procs' = [procs EXCEPT ![p] = Idle]
  /\ UNCHANGED <<updates, now, run, probe>>

-----------------------------------------------------------------------------
(* GET /issues/my, GET /issues/all, GET /issues/{issue_id} *)

ListLimit == 1000

UpdatesLimit == 100

\* a slip: the projection drops nothing
project_all(issue) == issue

\* the projection {"_id": 0, "anon_token": 0}: the document without its token
project(issue) == [f \in DOMAIN issue \ {"anon_token"} |-> issue[f]]

\* a document matches a query when it has the value the query names for each
\* of the query's fields; the empty query {} matches every document
matches(issue, query) == \A f \in DOMAIN query : issue[f] = query[f]

\* find(query, projection).to_list(1000)
find_issues(docs, query) ==
  LET found == to_list(SelectSeq(docs, LAMBDA i : matches(i, query)), ListLimit)
  IN [j \in 1..Len(found) |-> project(found[j])]

\* the body of get_my_issues: a Student's issues are those tagged with the
\* token of the day of the call; a Principal sees the Escalated issues, any
\* other role the issues assigned to it
my_issues(docs, uid, role, t) ==
  IF role = "Student"
  THEN find_issues(docs, [anon_token |-> generate_anon_token(uid, t)])
  ELSE IF role = "Principal"
  THEN find_issues(docs, [status |-> "Escalated"])
  ELSE find_issues(docs, [assigned_role |-> role])

\* find({"issue_id": id}).sort("timestamp", -1).to_list(100): an update's
\* timestamp is the instant it was built at, so the latest comes first
issue_updates(log, id) ==
  LET found == SelectSeq(log, LAMBDA u : u.issue_id = id)
  IN to_list([j \in 1..Len(found) |-> found[Len(found) + 1 - j]], UpdatesLimit)

get_my_issues(p, uid, role) ==
  /\ procs[p].pc = "idle"
  /\ Reply(p, [op |-> "my", result |-> "ok", issues |-> my_issues(issues, uid, role, now),
               pre |-> Pre(p, [uid |-> uid, role |-> role])])
  /\ UNCHANGED <<issues, updates, now, procs, run, probe>>

get_all_issues(p, role) ==
  /\ procs[p].pc = "idle"
  /\ LET pre == Pre(p, [role |-> role])
     IN IF role \notin {"Admin", "Principal"}
        THEN Reply(p, [op |-> "all", result |-> "Forbidden", pre |-> pre])
        ELSE Reply(p, [op |-> "all", result |-> "ok",
                       issues |-> find_issues(issues, <<>>), pre |-> pre])
  /\ UNCHANGED <<issues, updates, now, procs, run, probe>>

get_issue_find(p, issue_id, role) ==
  /\ procs[p].pc = "idle"
  /\ LET pre == Pre(p, [issue_id |-> issue_id, role |-> role])
     IN IF ~issue_exists(issue_id)
        THEN /\ Reply(p, [op |-> "issue", result |-> "NotFound", pre |-> pre])
             /\ UNCHANGED procs
        ELSE /\ procs' = [procs EXCEPT ![p] =
                            [pc |-> "issue_updates", issue_id |-> issue_id,
                             issue |-> project(issues[issue_id]), pre |-> pre]]
             /\ UNCHANGED resp
  /\ UNCHANGED <<issues, updates, now, run, probe>>

get_issue_updates(p) ==
  /\ procs[p].pc = "issue_updates"
  /\ Reply(p, [op |-> "issue", result |-> "ok", issue |-> procs[p].issue,
               updates |-> issue_updates(updates, procs[p].issue_id),
               pre |-> procs[p].pre])
  /\ procs' = [procs EXCEPT ![p] = Idle]
  /\ UNCHANGED <<issues, updates, now, run, probe>>

-----------------------------------------------------------------------------
(* The clock *)

Tick(days) ==
  /\ now + days <= MaxTime
  /\ now' = now + days
  /\ UNCHANGED <<issues, updates, procs, resp, run, probe>>

-----------------------------------------------------------------------------
(* Specifications *)

\* no call of the escalation policy on its own
NoProbe == [applied |-> "none", category |-> "", assigned_role |-> "", next_role |-> ""]

KnownCategories ==
  {"Academics", "Hostel", "Infrastructure", "Food", "Transportation", "Other"}

Statuses == {"Open", "In Progress", "Escalated", "Resolved"}

EmptyStore ==
  /\ issues = <<>>
  /\ updates = <<>>
  /\ now = 0
  /\ procs = [p \in Procs |-> Idle]
  /\ resp = [p \in Procs |-> NoResp]

\* Handlers interleave at their awaits: two slots, responses not observed.
Init ==
  /\ EmptyStore
  /\ probe = NoProbe
  /\ run = [max_issues |-> MaxIssues, max_updates |-> MaxUpdates, max_freq |-> MaxFreq, observe |-> FALSE,
            history |-> FALSE]

Next ==
  \/ \E p \in Procs, category \in {"Academics", "Hostel", "Canteen"},
        is_appropriate \in BOOLEAN :
       submit_feedback_find(p, "s1", "Student", category, <<"a">>, is_appropriate, now)
  \/ \E p \in Procs : submit_feedback_inc(p)
  \/ \E p \in Procs : submit_feedback_insert(p)
  \/ \E p \in Procs, id \in 1..MaxIssues, role \in {"Student", "Staff"} :
       add_update_find(p, id, role)
  \/ \E p \in Procs : add_update_insert(p)
  \/ \E p \in Procs : add_update_set(p)
  \/ \E p \in Procs, id \in 1..MaxIssues, role \in {"Student", "Staff"} :
       escalate_issue_find(p, id, role)
  \/ \E p \in Procs : escalate_issue_update(p)
  \/ \E p \in Procs : escalate_issue_insert(p)
  \/ \E p \in Procs, id \in 1..MaxIssues, status \in Statuses :
       update_status(p, id, status, "Staff")
  \/ \E p \in Procs : check_escalation_find(p)
  \/ \E p \in Procs : check_escalation_update(p)
  \/ \E p \in Procs : check_escalation_insert(p)
  \/ Tick(SlaDays + 1)

Spec == Init /\ [][Next]_vars

\* Handlers run one at a time, each to its end: one slot, and every response
\* is observed.
InitSeq ==
  /\ EmptyStore
  /\ probe = NoProbe
  /\ run = [max_issues |-> MaxIssues, max_updates |-> MaxUpdates, max_freq |-> MaxFreq, observe |-> TRUE,
            history |-> FALSE]

NextSeq ==
  \/ \E uid \in {"s1"}, role \in {"Student", "Staff"},
        category \in {"Academics", "Hostel", "Canteen"},
        summary \in {<<"a">>}, is_appropriate \in BOOLEAN,
        created_at \in {now, Min(now + 1, MaxTime)} :
       submit_feedback_find(1, uid, role, category, summary, is_appropriate, created_at)
  \/ submit_feedback_inc(1)
  \/ submit_feedback_insert(1)
  \/ \E id \in 1..(MaxIssues + 1), role \in {"Student", "Staff"} :
       add_update_find(1, id, role)
  \/ add_update_insert(1)
  \/ add_update_set(1)
  \/ \E id \in 1..(MaxIssues + 1), role \in {"Student", "Staff"} :
       escalate_issue_find(1, id, role)
  \/ escalate_issue_update(1)
  \/ escalate_issue_insert(1)
  \/ \E id \in 1..(MaxIssues + 1), status \in Statuses \cup {"Closed"},
        role \in {"Student", "Staff"} :
       update_status(1, id, status, role)
  \/ check_escalation_find(1)
  \/ check_escalation_update(1)
  \/ check_escalation_insert(1)
  \/ Tick(SlaDays + 1)

SpecSeq == InitSeq /\ [][NextSeq]_vars

\* The escalation policy on its own: the next-role computation of
\* escalate_issue and the one of check_escalation, each applied once to a
\* document's category and assigned_role drawn from the sets below.
ProbeCategories == KnownCategories \cup {"Canteen"}

ProbeRoles ==
  {"Student", "Staff", "HoD", "Warden", "Admin", "Principal", "System", "Janitor"}

InitPolicy ==
  /\ EmptyStore
  /\ run = [max_issues |-> 0, max_updates |-> 0, max_freq |-> MaxFreq, observe |-> FALSE, history |-> FALSE]
  /\ \E category \in ProbeCategories, assigned_role \in ProbeRoles :
       probe = [applied |-> "none", category |-> category,
                assigned_role |-> assigned_role, next_role |-> ""]

escalate_issue_policy ==
  /\ probe.applied = "none"
  /\ probe' = [probe EXCEPT !.applied = "escalate_issue",
                            !.next_role = escalate_target(probe)]
  /\ UNCHANGED <<issues, updates, now, procs, resp, run>>

check_escalation_policy ==
  /\ probe.applied = "none"
  /\ probe' = [probe EXCEPT !.applied = "check_escalation",
                            !.next_role = sweep_target(probe)]
  /\ UNCHANGED <<issues, updates, now, procs, resp, run>>

NextPolicy ==
  \/ escalate_issue_policy
  \/ check_escalation_policy

SpecPolicy == InitPolicy /\ [][NextPolicy]_vars

\* A store that has outgrown the handlers' query limits: SweepLimit + 1 Open
\* issues of one category, all past their SLA deadline, the last of them with a
\* summary of its own.  Handlers run one at a time; responses and history are
\* recorded.
LargeStore ==
  [i \in 1..(SweepLimit + 1) |->
     [issue_id |-> i, category |-> "Food",
      summary |-> IF i = SweepLimit + 1 THEN <<"a">> ELSE <<"b">>,
      status |-> "Open", assigned_role |-> initial_role("Food"), frequency_count |-> 1,
      created_at |-> 0, sla_deadline |-> SlaDays,
      anon_token |-> generate_anon_token("s1", 0)]]

InitLarge ==
  /\ issues = LargeStore
  /\ updates = <<>>
  /\ now = SlaDays + 1
  /\ procs = [p \in Procs |-> Idle]
  /\ resp = [p \in Procs |-> NoResp]
  /\ probe = NoProbe
  /\ run = [max_issues |-> SweepLimit + 2, max_updates |-> SweepLimit + 1, max_freq |-> MaxFreq,
            observe |-> TRUE, history |-> TRUE]

NextLarge ==
  \/ \E summary \in {<<"a">>, <<"b">>} :
       submit_feedback_find(1, "s1", "Student", "Food", summary, TRUE, now)
  \/ submit_feedback_inc(1)
  \/ submit_feedback_insert(1)
  \/ check_escalation_find(1)
  \/ check_escalation_update(1)
  \/ check_escalation_insert(1)

SpecLarge == InitLarge /\ [][NextLarge]_vars

\* Reads among the writes: two students submit, staff escalates and sets
\* statuses, and every role reads.  Handlers run one at a time; responses and
\* history are recorded.
InitRead ==
  /\ EmptyStore
  /\ probe = NoProbe
  /\ run = [max_issues |-> MaxIssues, max_updates |-> MaxUpdates, max_freq |-> MaxFreq, observe |-> TRUE,
            history |-> TRUE]

NextRead ==
  \/ \E uid \in {"s1", "s2"} :
       submit_feedback_find(1, uid, "Student", "Hostel", <<"a">>, TRUE, now)
  \/ submit_feedback_inc(1)
  \/ submit_feedback_insert(1)
  \/ \E id \in 1..MaxIssues : escalate_issue_find(1, id, "Admin")
  \/ escalate_issue_update(1)
  \/ escalate_issue_insert(1)
  \/ \E id \in 1..MaxIssues, status \in {"Open", "Resolved"} :
       update_status(1, id, status, "Admin")
  \/ \E uid \in {"s1", "s2"} : get_my_issues(1, uid, "Student")
  \/ \E role \in {"Warden", "Admin", "Principal"} : get_my_issues(1, "a1", role)
  \/ \E role \in {"Warden", "Admin", "Principal"} : get_all_issues(1, role)
  \/ \E id \in 1..(MaxIssues + 1), role \in {"Admin"} : get_issue_find(1, id, role)
  \/ get_issue_updates(1)
  \/ Tick(1)

SpecRead == InitRead /\ [][NextRead]_vars

\* Duplicates in flight: two slots, in which students submit the same summary
\* in one category while staff resolves and reopens the issue; MaxBumps
\* duplicates of an issue can be written.  Responses and history are recorded.
MaxBumps == 2

InitBump ==
  /\ EmptyStore
  /\ probe = NoProbe
  /\ run = [max_issues |-> MaxIssues, max_updates |-> 0, max_freq |-> MaxBumps + 1,
            observe |-> TRUE, history |-> TRUE]

NextBump ==
  \/ \E p \in Procs, uid \in {"s1", "s2"} :
       submit_feedback_find(p, uid, "Student", "Hostel", <<"a">>, TRUE, now)
  \/ \E p \in Procs : submit_feedback_inc(p)
  \/ \E p \in Procs : submit_feedback_insert(p)
  \/ \E p \in Procs, status \in {"In Progress", "Resolved"} :
       update_status(p, 1, status, "Warden")

SpecBump == InitBump /\ [][NextBump]_vars

\* Overlapping sweeps: two slots that run check_escalation and nothing else, on
\* a store of MaxSwept overdue issues of any category, role of its chain and
\* status.  The run records the store it starts from.
MaxSwept == 2

SweptIssues ==
  UNION {{[issue_id |-> 0, category |-> category, summary |-> <<"a">>,
           status |-> status, assigned_role |-> get_role_hierarchy(category)[k],
           frequency_count |-> 1, created_at |-> 0, sla_deadline |-> SlaDays,
           anon_token |-> generate_anon_token("s1", 0)] :
            status \in Statuses, k \in 1..Len(get_role_hierarchy(category))} :
         category \in {"Academics", "Hostel"}}

InitSweep ==
  /\ \E store \in [1..MaxSwept -> SweptIssues] :
       /\ issues = [i \in 1..MaxSwept |-> [store[i] EXCEPT !.issue_id = i]]
       /\ run = [max_issues |-> MaxSwept, max_updates |-> 2 * MaxSwept,
                 max_freq |-> MaxFreq, observe |-> FALSE, history |-> FALSE,
                 start |-> issues]
  /\ updates = <<>>
  /\ now = SlaDays + 1
  /\ procs = [p \in Procs |-> Idle]
  /\ resp = [p \in Procs |-> NoResp]
  /\ probe = NoProbe

NextSweep ==
  \/ \E p \in Procs : check_escalation_find(p)
  \/ \E p \in Procs : check_escalation_update(p)
  \/ \E p \in Procs : check_escalation_insert(p)

SpecSweep == InitSweep /\ [][NextSweep]_vars

-----------------------------------------------------------------------------
(* Properties *)

Range(f) == {f[i] : i \in DOMAIN f}

\* the position of an issue's assigned role in its category's chain (0-based)
Position(issue) == current_index(get_role_hierarchy(issue.category), issue.assigned_role)

\* the issue's assigned role is the last element of its category's chain
AtLastPosition(issue) ==
  LET hierarchy == get_role_hierarchy(issue.category)
  IN issue.assigned_role = hierarchy[Len(hierarchy)]

\* C1: escalation is monotonic. From one state to the next, under any
\* interleaving of the handlers' store operations, no issue's assigned role
\* moves to an earlier position of its category's chain.
C1_RoleNeverDecreases ==
  [][\A i \in 1..Len(issues) : Position(issues'[i]) >= Position(issues[i])]_vars

\* C2: Resolved is terminal. From one state to the next, whichever of
\* add_update, escalate_issue, update_status and check_escalation takes the
\* step, an issue that is Resolved keeps its status and its assigned role.
C2_ResolvedIsTerminal ==
  [][\A i \in 1..Len(issues) :
       issues[i].status = "Resolved" =>
         /\ issues'[i].status = "Resolved"
         /\ issues'[i].assigned_role = issues[i].assigned_role]_vars

\* C3: in every reachable state every issue's assigned role is a member of
\* its category's escalation chain, which is [Staff, Admin, Principal] for a
\* category outside the known set.
C3_RoleInChain ==
  \A i \in 1..Len(issues) :
    /\ issues[i].assigned_role \in Range(get_role_hierarchy(issues[i].category))
    /\ issues[i].category \notin KnownCategories =>
         issues[i].assigned_role \in {"Staff", "Admin", "Principal"}

\* an issue of a category outside the known set has climbed the default chain
\* to its end while another escalate, which read an earlier role, is still to
\* write
C3_Witness ==
  /\ \E i \in 1..Len(issues) :
       /\ issues[i].category \notin KnownCategories
       /\ issues[i].assigned_role = "Principal"
  /\ \E p \in Procs : procs[p].pc = "escalate_update"

\* C4: on an issue whose assigned role is the last of its chain, escalate by a
\* non-Student role fails with "Already at highest level" and changes neither
\* the issues nor the update log.
C4_AtCeilingNoMutation ==
  [][\A id \in 1..Len(issues), role \in {"Staff", "Admin", "Janitor"} :
       (escalate_issue_find(1, id, role) /\ AtLastPosition(issues[id])) =>
         /\ resp'[1].op = "escalate"
         /\ resp'[1].result = "AtCeiling"
         /\ issues' = issues
         /\ updates' = updates
         /\ procs' = procs]_vars

\* escalate was refused on an Academics issue that had climbed its whole chain
C4_Witness ==
  /\ resp[1].op = "escalate"
  /\ resp[1].result = "AtCeiling"
  /\ \E i \in 1..Len(issues) :
       /\ issues[i].category = "Academics"
       /\ issues[i].assigned_role = "Principal"
       /\ Len(updates) = 3

\* C5: the next-role computation fails closed for a role that is not in the
\* issue's chain: neither escalate_issue nor check_escalation derives a next
\* role for it ("" stands for AtCeiling in the one and for a skip in the other).
C5_UnknownRoleFailsClosed ==
  (/\ probe.applied # "none"
   /\ probe.assigned_role \notin Range(get_role_hierarchy(probe.category)))
  => probe.next_role = ""

\* C7: the step that stores a new issue appends exactly one issue, which is
\* Open, has frequency_count 1, is assigned to the first role of its category's
\* chain and has an SLA deadline exactly SlaDays after its creation time; it
\* changes no issue that was there before.
C7_NewIssueFields ==
  [][submit_feedback_insert(1) =>
       /\ Len(issues') = Len(issues) + 1
       /\ SubSeq(issues', 1, Len(issues)) = issues
       /\ LET new == issues'[Len(issues')]
          IN /\ new.status = "Open"
             /\ new.frequency_count = 1
             /\ new.assigned_role = get_role_hierarchy(new.category)[1]
             /\ new.sla_deadline = new.created_at + SlaDays]_vars

\* the last handler that slot 1 ran to completion: the kind of its response
Completed(op) == procs[1].pc = "idle" /\ resp[1].op = op

\* the issues of a recorded store that a submit of the recorded request
\* duplicates: same category, not Resolved, stored summary contains the new one
Duplicated(pre) ==
  {i \in 1..Len(pre.issues) :
     /\ pre.issues[i].category = pre.req.category
     /\ pre.issues[i].status # "Resolved"
     /\ SummaryMatches(pre.req.summary, pre.issues[i].summary)}

\* the issues of a recorded store that a sweep called then has to advance
Overdue(pre) ==
  {i \in 1..Len(pre.issues) :
     /\ pre.issues[i].status \in {"Open", "In Progress"}
     /\ pre.issues[i].sla_deadline < pre.now
     /\ ~AtLastPosition(pre.issues[i])}

\* C6: an accepted submit, called on a store where some non-Resolved issue of
\* its category has a summary containing the new one, returns the id of the
\* first such issue in store order, adds exactly 1 to that issue's
\* frequency_count, changes no other issue and creates none.
C6_DedupBumpsFirstMatch ==
  (Completed("submit") /\ resp[1].result = "ok" /\ Duplicated(resp[1].pre) # {})
  => LET pre == resp[1].pre
         first == CHOOSE i \in Duplicated(pre) : \A j \in Duplicated(pre) : i <= j
     IN /\ resp[1].issue_id = first
        /\ issues = [pre.issues EXCEPT ![first].frequency_count = @ + 1]

\* C8: a sweep that ran without interleaved operations has advanced by one
\* chain position every issue that was Open or In Progress, past its SLA
\* deadline and below the last position when it was called, has set each such
\* issue to Escalated, has appended exactly one System update for each, and
\* returns their number.
C8_SweepAdvancesEveryOverdue ==
  Completed("sweep")
  => LET pre == resp[1].pre
         added == (Len(pre.updates) + 1)..Len(updates)
     IN /\ resp[1].escalated_count = Cardinality(Overdue(pre))
        /\ \A i \in Overdue(pre) :
             /\ Position(issues[i]) = Position(pre.issues[i]) + 1
             /\ issues[i].status = "Escalated"
             /\ Cardinality({u \in added : /\ updates[u].issue_id = i
                                           /\ updates[u].role = "System"}) = 1

\* C9: the sweep is idempotent. A sweep that runs directly after another
\* sweep, at the same clock value, returns count 0, changes no issue and
\* appends no update.
C9_SecondSweepIsNoOp ==
  (/\ Completed("sweep")
   /\ resp[1].pre.prev.op = "sweep"
   /\ resp[1].pre.prev.now = resp[1].pre.now)
  => /\ resp[1].escalated_count = 0
     /\ issues = resp[1].pre.issues
     /\ updates = resp[1].pre.updates

\* C10: the sweep's write leaves alone an issue that is, when the write
\* happens, Escalated, Resolved or at the last position of its chain, whatever
\* ran between the sweep's scan and the write.
C10_SweepWriteSkipsSettled ==
  [][\A p \in Procs :
       (procs[p].pc = "sweep_update" /\ procs'[p].pc = "sweep_insert") =>
         LET id == procs[p].issues[procs[p].k].issue_id
         IN (issues[id].status \in {"Escalated", "Resolved"} \/ AtLastPosition(issues[id])) =>
              /\ issues'[id].status = issues[id].status
              /\ issues'[id].assigned_role = issues[id].assigned_role
              /\ updates' = updates]_vars

\* C11: a successful escalate that runs without interleaving. Called by a
\* non-Student role on an existing issue below the last position of its chain,
\* whatever the issue's status, the handler goes on to write; its write moves
\* the assigned role up by exactly one position and sets the status to
\* Escalated, touching nothing else; its insert appends exactly one update, for
\* that issue and authored by the acting role, and it returns success.
C11_EscalateAdvancesOne ==
  [][/\ \A id \in 1..Len(issues), role \in {"Staff", "Admin"} :
          (escalate_issue_find(1, id, role) /\ ~AtLastPosition(issues[id])) =>
            /\ procs'[1].pc = "escalate_update"
            /\ procs'[1].issue_id = id
            /\ procs'[1].role = role
     /\ escalate_issue_update(1) =>
          LET id == procs[1].issue_id
          IN /\ Position(issues'[id]) = Position(issues[id]) + 1
             /\ issues'[id].status = "Escalated"
             /\ issues' = [issues EXCEPT ![id].assigned_role = issues'[id].assigned_role,
                                         ![id].status = "Escalated"]
             /\ updates' = updates
     /\ escalate_issue_insert(1) =>
          /\ Len(updates') = Len(updates) + 1
          /\ SubSeq(updates', 1, Len(updates)) = updates
          /\ updates'[Len(updates')].issue_id = procs[1].issue_id
          /\ updates'[Len(updates')].role = procs[1].role
          /\ issues' = issues
          /\ resp'[1].op = "escalate"
          /\ resp'[1].result = "ok"]_vars

\* an escalate has returned success on an Academics issue that it moved to the
\* last role of its chain
C11_Witness ==
  /\ procs[1].pc = "idle"
  /\ resp[1].op = "escalate"
  /\ resp[1].result = "ok"
  /\ resp[1].next_role = "Principal"
  /\ \E i \in 1..Len(issues) :
       /\ issues[i].category = "Academics"
       /\ issues[i].assigned_role = "Principal"
       /\ issues[i].status = "Escalated"

\* C12: add_update by a non-Student role, run without interleaving. On an id
\* that no issue has it fails with NotFound and changes nothing. On an existing
\* issue it goes on to write: its insert appends exactly one update, for that
\* issue, and its update of the issue sets the status to In Progress, whatever
\* the status was, and changes no other field and no other issue.
C12_AddUpdateEffect ==
  [][/\ \A id \in 1..(MaxIssues + 1), role \in {"Staff", "Admin"} :
          add_update_find(1, id, role) =>
            IF issue_exists(id)
            THEN /\ procs'[1].pc = "update_insert"
                 /\ procs'[1].issue_id = id
                 /\ procs'[1].role = role
            ELSE /\ resp'[1].op = "update"
                 /\ resp'[1].result = "NotFound"
                 /\ issues' = issues
                 /\ updates' = updates
                 /\ procs' = procs
     /\ add_update_insert(1) =>
          /\ Len(updates') = Len(updates) + 1
          /\ SubSeq(updates', 1, Len(updates)) = updates
          /\ updates'[Len(updates')].issue_id = procs[1].issue_id
          /\ updates'[Len(updates')].role = procs[1].role
          /\ issues' = issues
     /\ add_update_set(1) =>
          /\ issues' = [issues EXCEPT ![procs[1].issue_id].status = "In Progress"]
          /\ updates' = updates
          /\ resp'[1].op = "update"
          /\ resp'[1].result = "ok"]_vars

\* an add_update has returned success on an issue that had climbed to the last
\* role of its chain, and has left it In Progress at that role
C12_Witness ==
  /\ procs[1].pc = "idle"
  /\ resp[1].op = "update"
  /\ resp[1].result = "ok"
  /\ \E i \in 1..Len(issues) :
       /\ issues[i].status = "In Progress"
       /\ issues[i].assigned_role = "Principal"

\* C13: update_status by a staff role changes only the status field of the
\* issue it names: that issue's other fields, every other issue and the update
\* log stay as they are, so no issue's position in its chain changes.
C13_SetStatusFrame ==
  [][\A id \in 1..(MaxIssues + 1), status \in Statuses \cup {"Closed"},
       role \in {"Staff", "Principal"} :
       update_status(1, id, status, role) =>
         /\ issues' = IF issue_exists(id) THEN [issues EXCEPT ![id].status = status] ELSE issues
         /\ updates' = updates
         /\ \A i \in 1..Len(issues) : Position(issues'[i]) = Position(issues[i])
         /\ resp'[1].op = "status"
         /\ resp'[1].result = "ok"]_vars

\* update_status has returned success on an issue that had been escalated to
\* the last role of its chain and bumped by a duplicate, and that is Resolved now
C13_Witness ==
  /\ procs[1].pc = "idle"
  /\ resp[1].op = "status"
  /\ resp[1].result = "ok"
  /\ \E i \in 1..Len(issues) :
       /\ issues[i].status = "Resolved"
       /\ issues[i].assigned_role = "Principal"
       /\ issues[i].frequency_count = 2

\* the issues and the update log are left as they are, and slot 1 answers
\* with the error `e` of handler `op`
FailsWith(op, e) ==
  /\ resp'[1].op = op
  /\ resp'[1].result = e
  /\ issues' = issues
  /\ updates' = updates

\* C14: a call that ends in an error changes neither the issues nor the update
\* log: submit by a non-Student (Forbidden) or with an inappropriate verdict
\* (ContentRejected); add_update, escalate or update_status by a Student
\* (Forbidden); add_update or escalate on an id that no issue has (NotFound).
C14_ErrorsChangeNothing ==
  [][/\ \A category \in {"Academics", "Hostel", "Canteen"}, is_appropriate \in BOOLEAN :
          /\ submit_feedback_find(1, "s1", "Staff", category, <<"a">>, is_appropriate, now)
               => FailsWith("submit", "Forbidden")
          /\ submit_feedback_find(1, "s1", "Student", category, <<"a">>, FALSE, now)
               => FailsWith("submit", "ContentRejected")
     /\ \A id \in 1..(MaxIssues + 1) :
          /\ add_update_find(1, id, "Student") => FailsWith("update", "Forbidden")
          /\ escalate_issue_find(1, id, "Student") => FailsWith("escalate", "Forbidden")
          /\ \A status \in Statuses :
               update_status(1, id, status, "Student") => FailsWith("status", "Forbidden")
          /\ (add_update_find(1, id, "Staff") /\ ~issue_exists(id))
               => FailsWith("update", "NotFound")
          /\ (escalate_issue_find(1, id, "Staff") /\ ~issue_exists(id))
               => FailsWith("escalate", "NotFound")]_vars

\* a Student's update_status on an existing issue has been refused
C14_Witness ==
  /\ procs[1].pc = "idle"
  /\ resp[1].op = "status"
  /\ resp[1].result = "Forbidden"
  /\ Len(issues) = 1
  /\ issues[1].status = "Escalated"

\* the store with every issue's anonymity token replaced by `tok`
Retoken(docs, tok) == [i \in DOMAIN docs |-> [docs[i] EXCEPT !.anon_token = tok]]

StaffRoles == {"Staff", "HoD", "Warden", "Admin", "Principal"}

\* C15: no response of get_my_issues, get_all_issues or get_issue carries an
\* anonymity token, and what these handlers return to a staff role is the same
\* on the store as it is and on the store with every token replaced: the
\* responses do not depend on who submitted.
C15_TokenNeverExposed ==
  /\ (resp[1].op \in {"my", "all"} /\ resp[1].result = "ok") =>
       \A j \in 1..Len(resp[1].issues) : "anon_token" \notin DOMAIN resp[1].issues[j]
  /\ (resp[1].op = "issue" /\ resp[1].result = "ok") =>
       "anon_token" \notin DOMAIN resp[1].issue
  /\ \A tok \in {generate_anon_token("s1", 0), generate_anon_token("s3", 1)} :
       LET other == Retoken(issues, tok)
       IN /\ \A role \in StaffRoles :
               my_issues(issues, "a1", role, now) = my_issues(other, "a1", role, now)
          /\ find_issues(issues, <<>>) = find_issues(other, <<>>)
          /\ \A id \in 1..Len(issues) : project(issues[id]) = project(other[id])

\* an Admin has listed all issues and got the one that student s2 submitted
C15_Witness ==
  /\ resp[1].op = "all"
  /\ resp[1].result = "ok"
  /\ Len(resp[1].issues) = 1
  /\ \E i \in 1..Len(issues) : issues[i].anon_token = generate_anon_token("s2", 1)

\* C16: in every reachable state every issue's status is one of Open,
\* In Progress, Escalated and Resolved, whatever status a staff caller passes
\* to update_status.
C16_StatusIsEnumerated ==
  \A i \in 1..Len(issues) : issues[i].status \in Statuses

\* slot p has returned from a submit that bumped issue `id`, which it had
\* found with frequency count `c`
Bumped(p, id, c) ==
  /\ procs[p].pc = "idle"
  /\ resp[p].op = "submit"
  /\ resp[p].result = "ok"
  /\ resp[p].issue_id = id
  /\ id \in 1..Len(resp[p].pre.issues)
  /\ resp[p].pre.issues[id].frequency_count = c

\* C17: frequency bumps are not lost. Whatever ran between a duplicate
\* submit's read and its write, the write raises the issue's stored count by
\* exactly one and changes nothing else; so two duplicates of an issue that
\* both found it with count c leave it with count c + 2 or more.
C17_BumpsNotLost ==
  [][/\ \A p \in Procs :
          submit_feedback_inc(p) =>
            issues' = [issues EXCEPT ![procs[p].issue_id].frequency_count = @ + 1]
     /\ \A id \in 1..Len(issues), c \in 1..MaxBumps :
          (Bumped(1, id, c) /\ Bumped(2, id, c)) => issues[id].frequency_count >= c + 2]_vars

\* two duplicate submits that both found the issue at count 1 have returned,
\* and the count is 3
C17_Witness ==
  /\ Bumped(1, 1, 1)
  /\ Bumped(2, 1, 1)
  /\ issues[1].frequency_count = 3

\* the System-authored updates in the log that are about issue i
SystemUpdates(i) ==
  {u \in 1..Len(updates) : updates[u].issue_id = i /\ updates[u].role = "System"}

\* C18: overlapping sweeps are safe. At every point of a run in which only
\* sweeps run, interleaved in any way, every issue's assigned role is at most
\* one chain position above where the run found it; an issue that was
\* advanced is Escalated and one that was not is as the run found it; and the
\* log holds at most two System updates about an issue, none if it was not
\* advanced.
C18_OverlappingSweeps ==
  \A i \in 1..Len(issues) :
    LET start == run.start[i]
    IN /\ Position(issues[i]) <= Position(start) + 1
       /\ Cardinality(SystemUpdates(i)) <= 2
       /\ IF Position(issues[i]) > Position(start)
          THEN issues[i].status = "Escalated"
          ELSE issues[i] = start /\ SystemUpdates(i) = {}

\* two sweeps that overlapped have both returned: an Academics issue that was
\* at Staff is at HoD, and the log holds two System updates about it
C18_Witness ==
  /\ \A p \in Procs : procs[p].pc = "idle"
  /\ \E i \in 1..Len(issues) :
       /\ run.start[i].category = "Academics"
       /\ run.start[i].assigned_role = "Staff"
       /\ issues[i].assigned_role = "HoD"
       /\ Cardinality(SystemUpdates(i)) = 2

\* C19: a student finds what they submitted. When the handler that ran last
\* was a successful submit by student `uid`, and `uid` lists their issues while
\* the clock still shows the day of that submit, the list holds the issue
\* whose id the submit returned, be it a new issue or a duplicate's.
C19_StudentFindsOwnIssue ==
  [][\A uid \in {"s1", "s2"} :
       (/\ get_my_issues(1, uid, "Student")
        /\ resp[1].op = "submit"
        /\ resp[1].result = "ok"
        /\ resp[1].pre.req.uid = uid
        /\ resp[1].pre.now = now)
       => \E j \in 1..Len(resp'[1].issues) :
            resp'[1].issues[j].issue_id = resp[1].issue_id]_vars

-----------------------------------------------------------------------------
(* The periodic sweep under fairness *)

\* A store in which the sweep's window is full: SweepLimit Open issues of one
\* category, past their SLA deadline and at the last position of the chain,
\* followed by one Open overdue issue at the first position.  Staff set
\* statuses at any time; the sweep runs whenever it can make a step.
CloggedStore ==
  [i \in 1..(SweepLimit + 1) |->
     [issue_id |-> i, category |-> "Food", summary |-> <<"a">>,
      status |-> "Open",
      assigned_role |-> IF i = SweepLimit + 1 THEN initial_role("Food") ELSE "Principal",
      frequency_count |-> 1, created_at |-> 0, sla_deadline |-> SlaDays,
      anon_token |-> generate_anon_token("s1", 0)]]

InitLive ==
  /\ issues = CloggedStore
  /\ updates = <<>>
  /\ now = SlaDays + 1
  /\ procs = [p \in Procs |-> Idle]
  /\ resp = [p \in Procs |-> NoResp]
  /\ probe = NoProbe
  /\ run = [max_issues |-> SweepLimit + 1,
            max_updates |-> Len(get_role_hierarchy("Food")),
            max_freq |-> MaxFreq, observe |-> TRUE, history |-> FALSE]

NextLive ==
  \/ check_escalation_find(1)
  \/ check_escalation_update(1)
  \/ check_escalation_insert(1)
  \/ \E issue_id \in {1, 2, SweepLimit + 1}, status \in {"Open", "In Progress", "Resolved"} :
       update_status(1, issue_id, status, "Admin")

\* the sweep is invoked again and again, and a sweep that has started runs
\* to its end.  An invocation that finds nothing to write and returns the
\* response already recorded leaves the state as it was; the invocations
\* counted here are those that follow another request.
SweepFairness ==
  /\ []<><<check_escalation_find(1)>>_vars
  /\ WF_vars(check_escalation_update(1))
  /\ WF_vars(check_escalation_insert(1))

SpecLive == InitLive /\ [][NextLive]_vars /\ SweepFairness

\* the issue is Open or In Progress and past its SLA deadline
OverdueNow(i) ==
  /\ issues[i].status \in {"Open", "In Progress"}
  /\ issues[i].sla_deadline < now

BelowLast(issue) == Position(issue) < Len(get_role_hierarchy(issue.category)) - 1

\* the issues whose progress is followed: the first and the last of the
\* sweep's window, and the first issue after it
Watched == {1, SweepLimit, SweepLimit + 1}

\* C20: overdue issues do not stay unescalated. With the sweep invoked again
\* and again, every issue that is Open or In Progress, past its SLA deadline
\* and below the last position of its chain eventually has status Escalated
\* or Resolved.  The eventuality is stated for the issues of Watched.
C20_OverdueEventuallyEscalated ==
  \A i \in Watched :
    (OverdueNow(i) /\ BelowLast(issues[i]))
      ~> (issues[i].status \in {"Escalated", "Resolved"})

\* C20, second part: an overdue Open or In Progress issue at the last
\* position of its chain is among the candidates of every sweep, and no step
\* of a sweep changes it.
C20_LastPositionSelectedUnchanged ==
  [][LET stuck == {i \in 1..Len(issues) : OverdueNow(i) /\ ~BelowLast(issues[i])}
     IN /\ check_escalation_find(1)
           => LET cands == sweep_candidates(now)
                  selected == {cands[j].issue_id : j \in 1..Len(cands)}
              IN stuck \subseteq selected
        /\ (check_escalation_update(1) \/ check_escalation_insert(1))
           => \A i \in stuck : issues'[i] = issues[i]]_vars

=============================================================================
